---- MODULE Spec2Model ----
(***************************************************************************)
(* Model of the concurrent proxy-tester harness of                         *)
(* src/xray_test/enhanced-proxy-tester.go: one call of                     *)
(* EnhancedProxyTester.TestConfigsSafe over a batch of configs, the        *)
(* WorkerPool it creates, the task closures the workers run, and           *)
(* EnhancedProxyTester.Stop running concurrently (signal handler).         *)
(*                                                                         *)
(* PortManager (Acquire / Release / ReleaseAll) and testSingleConfig are   *)
(* called by this file but defined elsewhere in the package; they are      *)
(* modelled from their description in spec.md (sections 4.1 and 4.3).      *)
(***************************************************************************)
EXTENDS Integers, Sequences, FiniteSets, TLC

\* ---- bounds of the model ----
MaxConfigs == 3        \* largest batch, len(configs) in 0..MaxConfigs
MaxWorkersBound == 2   \* config.MaxWorkers in 1..MaxWorkersBound
MaxPorts == 2          \* size of the port range [StartPort, EndPort)
MaxMemReading == 2     \* runtime.MemStats readings, in MB, in 0..MaxMemReading

\* config.MaxMemoryMB values tried (0 disables the memory check)
MemLimits == {0, 1}

\* config.Timeout values tried: zero, and 1 standing for any positive duration
Timeouts == {0, 1}

VARIABLES
    nConfigs,          \* len(configs) of the batch
    maxWorkers,        \* ept.config.MaxWorkers
    numPorts,          \* EndPort - StartPort
    maxMemoryMB,       \* ept.config.MaxMemoryMB
    timeout,           \* ept.config.Timeout: 0, or 1 for any positive duration
    opc,               \* position of the goroutine running TestConfigsSafe
    idx,               \* loop index of the submission loop (1-based)
    retErr,            \* TestConfigsSafe returned a non-nil error
    results,           \* the returned slice
    resultChan,        \* buffered channel of *TestResultData, cap len(configs)
    eptWg,             \* ept.wg counter
    ctxCancelled,      \* ept.ctx is done
    spc,               \* position of the goroutine running ept.Stop
    stopCalls,         \* number of invocations of ept.Stop so far
    revoked,           \* running tasks whose port lease ReleaseAll has reset
    lateStart,         \* running tasks started after ept.ctx was cancelled
    activeProcesses,   \* ept.activeProcesses
    leased,            \* PortManager: set of leased ports
    tpc,               \* position of each task closure
    tport,             \* local variable port of testConfigWithResources, 0 = none
    tres,              \* the *TestResultData the task is about to emit
    tpanic,            \* tasks whose testSingleConfig panicked
    taskQueue,         \* wp.taskQueue contents
    tqClosed,          \* wp.taskQueue is closed
    resultQueue,       \* wp.resultQueue contents (errors)
    wpShutdown,        \* wp.shutdown is closed
    wppc,              \* position inside WorkerPool.Stop
    wpWg,              \* wp.wg counter
    idleWorkers,       \* workers waiting in the outer select
    exitedWorkers,     \* workers that returned
    crashed,           \* an unrecovered panic killed the process
    submitRet,         \* return value of the latest WorkerPool.Submit
    nSubmits,          \* number of Submit calls made
    totalTests, successfulTests, failedTests,  \* ept.metrics counters
    avgResponseTime,   \* ept.metrics.avgResponseTime, a fraction <<num, den>>
    admit,             \* what canTest returned to each task: "none", "yes", "no"
    texpired,          \* tasks whose derived ctx has passed its Timeout deadline
    sigPending,        \* a later signal sits unread in sigChan (buffer of 1)
    ctMem, ctRet,      \* a direct call of canTest: memory reading and return
    m_config,          \* ConfigManager::m_config
    m_configFilePath,  \* ConfigManager::m_configFilePath
    m_errors,          \* ConfigManager::m_errors
    cmFiles,           \* the config files on disk, by path
    cmSaved,           \* by path: the m_config the latest saveConfig wrote there
    cmOp,              \* the latest ConfigManager call: name, path argument, return
    m_lastError,       \* Utils::m_lastError
    utFiles,           \* the files Utils works on that exist
    utDir,             \* whether the directory of those files exists
    utOp,              \* the latest Utils call: name, whether it failed,
                       \* and whether an error was pending before it
    spLink,            \* the link string handed to the parser, by its structure
    spBean,            \* the ProxyBean the latest parse worked on
    spOp               \* the latest parser call: name and return

cfgVars == <<nConfigs, maxWorkers, numPorts, maxMemoryMB, timeout>>
orchVars == <<opc, idx, retErr, results>>
metricVars == <<totalTests, successfulTests, failedTests, avgResponseTime>>
stopVars == <<ctxCancelled, spc, stopCalls, revoked>>
taskVars == <<tpc, tport, tres, tpanic>>
poolVars == <<taskQueue, tqClosed, resultQueue, wpShutdown, wppc, wpWg,
              idleWorkers, exitedWorkers>>
submitVars == <<submitRet, nSubmits>>
ctxVars == <<admit, texpired, lateStart>>
callVars == <<sigPending, ctMem, ctRet>>
cmVars == <<m_config, m_configFilePath, m_errors, cmFiles, cmSaved, cmOp>>
utVars == <<m_lastError, utFiles, utDir, utOp>>
spVars == <<spLink, spBean, spOp>>
vars == <<cfgVars, orchVars, metricVars, stopVars, taskVars, poolVars,
          submitVars, ctxVars, callVars, resultChan, eptWg, activeProcesses,
          leased, crashed, cmVars, utVars, spVars>>

Tasks == 1..nConfigs
Ports == 1..numPorts

\* TestResult values this file produces
ResultSuccess == "success"
ResultFailure == "failure"
ResultTimeout == "timeout"
ResultPortConflict == "port_conflict"
ResultResourceExhausted == "resource_exhausted"

NoResult == [Config |-> 0, Result |-> "none", Message |-> "", ResponseTime |-> 0]

TestResultData(cfg, res, msg, rt) ==
    [Config |-> cfg, Result |-> res, Message |-> msg, ResponseTime |-> rt]

\* positions of a task closure at which a worker is executing it
Running == {"run", "enter", "acquire", "check", "test", "leave", "emit"}

\* taskQueue: make(chan func(), maxWorkers*2)
QueueCap == maxWorkers * 2
\* resultQueue: make(chan error, maxWorkers)
ResultQueueCap == maxWorkers

\* ---------------------------------------------------------------------
\* ConfigManager and Utils (src/main): values
\* ---------------------------------------------------------------------

\* the paths a config file is read from or written to: the file next to the
\* application (the place loadConfig() and saveConfig() fall back to) and a
\* file the caller names
AppConfigPath == "app/config.json"
FilePaths == {AppConfigPath, "p"}
\* a path that cannot be opened, for reading or for writing
BadPath == "/non/existent/path"
\* the configPath arguments tried; "" is the default argument QString()
PathArgs == {"", "p", BadPath}

\* the singleton before any call: static storage, zero-initialised
ZeroConfig ==
    [dataDirectory |-> "", subFilePath |-> "", configOutputDirectory |-> "",
     workingDirectory |-> "", maxConcurrentDownloads |-> 0,
     requestTimeout |-> 0, createMissingDirectories |-> FALSE,
     verboseLogging |-> FALSE]

\* initializeDefaultConfig
DefaultConfig ==
    [dataDirectory |-> "app/data", subFilePath |-> "app/../data/Sub.txt",
     configOutputDirectory |-> "app/../data/Config",
     workingDirectory |-> "app/../data/working",
     maxConcurrentDownloads |-> 10, requestTimeout |-> 30000,
     createMissingDirectories |-> TRUE, verboseLogging |-> TRUE]

\* the values the tests write into the Config through getConfig(): one that
\* differs from the defaults in every field, and one that fails validation
TestConfigs ==
    {[dataDirectory |-> "d1", subFilePath |-> "s1",
      configOutputDirectory |-> "o1", workingDirectory |-> "w1",
      maxConcurrentDownloads |-> 5, requestTimeout |-> 7,
      createMissingDirectories |-> FALSE, verboseLogging |-> FALSE],
     [DefaultConfig EXCEPT !.dataDirectory = "",
                           !.maxConcurrentDownloads = -1]}

NoFile == [kind |-> "absent"]
\* a file whose content is not a JSON object
GarbageFile == [kind |-> "garbage"]
ObjectFile(obj) == [kind |-> "object", obj |-> obj]

NoCall == [op |-> "none", path |-> "", ret |-> TRUE]

CmIdle ==
    /\ m_config = ZeroConfig
    /\ m_configFilePath = ""
    /\ m_errors = <<>>
    /\ cmFiles = [f \in FilePaths |-> NoFile]
    /\ cmSaved = [f \in FilePaths |-> [saved |-> FALSE, config |-> ZeroConfig]]
    /\ cmOp = NoCall

\* the files Utils is called on
UtPaths == {"f", "g"}

\* ---------------------------------------------------------------------
\* SubParser and the ProxyBean classes (src/unnamed/part_001): values
\* ---------------------------------------------------------------------

\* QUrl of a string: whether it is valid, and host(), userName(), password();
\* an invalid QUrl has empty components
UrlView(valid, host, user, pass) ==
    [valid |-> valid, host |-> host, user |-> user, pass |-> pass]

InvalidUrl == UrlView(FALSE, "", "", "")

\* what DecodeB64IfValid makes of a text: nothing (the text is empty or is
\* not base64), the text of a JSON document, or some other text
EmptyBytes == [kind |-> "empty"]
JsonBytes(obj) == [kind |-> "json", obj |-> obj]
TextBytes(url) == [kind |-> "text", url |-> url]

\* a freshly made bean of a class: std::make_shared<VMessBean>() and so on
NewBean(cls) ==
    [cls |-> cls, type |-> "", serverAddress |-> "", uuid |-> "",
     method |-> "", password |-> ""]

NoLink == [scheme |-> "", hasAt |-> FALSE, decoded |-> EmptyBytes,
           url |-> InvalidUrl]

SpIdle ==
    /\ spLink = NoLink
    /\ spBean = NewBean("none")
    /\ spOp = [op |-> "none", ret |-> FALSE]

\* Utils before any call: the static m_lastError is empty
UtIdle ==
    /\ m_lastError = ""
    /\ utFiles = {}
    /\ utDir = FALSE
    /\ utOp = [op |-> "none", failed |-> FALSE, hadError |-> FALSE]

Init ==
    /\ nConfigs \in 0..MaxConfigs
    /\ maxWorkers \in 1..MaxWorkersBound
    /\ numPorts \in 1..MaxPorts
    /\ maxMemoryMB \in MemLimits
    /\ timeout \in Timeouts
    /\ opc = "idle" /\ idx = 1 /\ retErr = FALSE /\ results = <<>>
    /\ resultChan = <<>> /\ eptWg = 0
    /\ ctxCancelled = FALSE /\ spc = "idle"
    /\ stopCalls = 0 /\ revoked = {} /\ lateStart = {}
    /\ activeProcesses = 0 /\ leased = {}
    /\ tpc = [i \in Tasks |-> "new"]
    /\ tport = [i \in Tasks |-> 0]
    /\ tres = [i \in Tasks |-> NoResult]
    /\ tpanic = {}
    /\ taskQueue = <<>> /\ tqClosed = FALSE /\ resultQueue = <<>>
    /\ wpShutdown = FALSE /\ wppc = "none" /\ wpWg = 0
    /\ idleWorkers = 0 /\ exitedWorkers = 0
    /\ crashed = FALSE
    /\ submitRet = "none" /\ nSubmits = 0
    /\ totalTests = 0 /\ successfulTests = 0 /\ failedTests = 0
    /\ avgResponseTime = <<0, 1>>
    /\ admit = [i \in Tasks |-> "none"]
    /\ texpired = {}
    /\ sigPending = FALSE
    /\ ctMem = 0 /\ ctRet = "none"
    /\ CmIdle /\ UtIdle /\ SpIdle

\* ---------------------------------------------------------------------
\* PortManager (defined outside this file; spec.md section 4.1)
\* ---------------------------------------------------------------------

\* Acquire: the ports it may hand out: any port not currently leased
FreePorts(ls) == Ports \ ls

\* Release(port): idempotent, a silent no-op for a port that is not leased
Release(ls, p) == ls \ {p}

\* ReleaseAll: reset the leased set
ReleaseAll(ls) == {}

\* ---------------------------------------------------------------------
\* Admission and metrics
\* ---------------------------------------------------------------------

\* canTest denying already at the limit (memoryMB >= MaxMemoryMB)
canTestAtLimit(memMB, active) ==
    IF maxMemoryMB > 0 /\ memMB >= maxMemoryMB THEN FALSE
    ELSE IF active >= maxWorkers THEN FALSE
    ELSE TRUE

\* canTest: memory reading memMB against MaxMemoryMB, then activeProcesses
canTest(memMB, active) ==
    IF maxMemoryMB > 0 /\ memMB > maxMemoryMB THEN FALSE
    ELSE IF active >= maxWorkers THEN FALSE
    ELSE TRUE

\* avgResponseTime is a float64; it is kept exactly, as a fraction in lowest
\* terms
RECURSIVE GCD(_, _)
GCD(a, b) == IF b = 0 THEN a ELSE GCD(b, a % b)

Fraction(num, den) ==
    IF num = 0 THEN <<0, 1>>
    ELSE <<num \div GCD(num, den), den \div GCD(num, den)>>

\* newAvg := (currentAvg*float64(total-1) + sample) / float64(total)
RunningMean(avg, total, sample) ==
    Fraction(avg[1] * (total - 1) + sample * avg[2], avg[2] * total)

\* updateMetrics that counts a success by moving one test over from the
\* failures
updateMetricsMoveOver(r) ==
    /\ totalTests' = totalTests + 1
    /\ IF r.Result = ResultSuccess
       THEN successfulTests' = successfulTests + 1 /\ failedTests' = failedTests - 1
       ELSE successfulTests' = successfulTests /\ failedTests' = failedTests + 1
    /\ avgResponseTime' = avgResponseTime

\* updateMetrics with the failure counter forgotten
updateMetricsNoFailure(r) ==
    /\ totalTests' = totalTests + 1
    /\ failedTests' = failedTests
    /\ successfulTests' =
          IF r.Result = ResultSuccess THEN successfulTests + 1 ELSE successfulTests
    /\ avgResponseTime' = avgResponseTime

\* updateMetrics: the counters, then the running mean for every result with
\* ResponseTime > 0 (total is read after the increment)
updateMetrics(r) ==
    /\ totalTests' = totalTests + 1
    /\ IF r.Result = ResultSuccess
       THEN successfulTests' = successfulTests + 1 /\ failedTests' = failedTests
       ELSE failedTests' = failedTests + 1 /\ successfulTests' = successfulTests
    /\ IF r.ResponseTime > 0 /\ totalTests + 1 > 0
       THEN avgResponseTime' =
               RunningMean(avgResponseTime, totalTests + 1, r.ResponseTime)
       ELSE avgResponseTime' = avgResponseTime

\* ---------------------------------------------------------------------
\* WorkerPool
\* ---------------------------------------------------------------------

\* A worker returns: the deferred wp.wg.Done(). Start never calls wp.wg.Add,
\* so the counter goes negative and sync.WaitGroup panics in the worker
\* goroutine, which nothing recovers.
WorkerReturn ==
    /\ exitedWorkers' = exitedWorkers + 1
    /\ wpWg' = wpWg - 1
    /\ crashed' = (wpWg - 1 < 0)

\* WorkerPool.Submit(task i) returning ret. A select with a default: the
\* cases that can proceed are chosen among at random; a send on the closed
\* taskQueue panics.
Submit(i, ret) ==
    /\ nSubmits' = nSubmits + 1
    /\ submitRet' = ret
    /\ \/ /\ ~tqClosed /\ Len(taskQueue) < QueueCap
          /\ ret = "ok"
          /\ taskQueue' = Append(taskQueue, i)
          /\ crashed' = crashed
       \/ /\ tqClosed
          /\ ret = "panic"
          /\ crashed' = TRUE
          /\ taskQueue' = taskQueue
       \/ /\ wpShutdown
          /\ ret = "shutting_down"
          /\ UNCHANGED <<taskQueue, crashed>>
       \/ /\ ~wpShutdown /\ ~tqClosed /\ Len(taskQueue) >= QueueCap
          /\ ret = "queue_full"
          /\ UNCHANGED <<taskQueue, crashed>>

SubmitReturns == {"ok", "queue_full", "shutting_down", "panic"}

\* worker: case task := <-wp.taskQueue, the task starts executing
WorkerTake ==
    /\ ~crashed
    /\ idleWorkers > 0
    /\ taskQueue # <<>>
    /\ LET i == Head(taskQueue) IN
          /\ tpc' = [tpc EXCEPT ![i] = "run"]
          /\ lateStart' = IF ctxCancelled THEN lateStart \cup {i} ELSE lateStart
    /\ taskQueue' = Tail(taskQueue)
    /\ idleWorkers' = idleWorkers - 1
    /\ UNCHANGED <<admit, texpired>>
    /\ UNCHANGED <<cfgVars, cmVars, utVars, spVars, callVars, orchVars, metricVars, stopVars, tport, tres, tpanic,
                   tqClosed, resultQueue, wpShutdown, wppc, wpWg, exitedWorkers,
                   submitVars, resultChan, eptWg, activeProcesses, leased,
                   crashed>>

\* worker: case <-wp.shutdown in the outer select
WorkerExitIdle ==
    /\ ~crashed
    /\ idleWorkers > 0
    /\ wpShutdown
    /\ idleWorkers' = idleWorkers - 1
    /\ WorkerReturn
    /\ UNCHANGED <<cfgVars, cmVars, utVars, spVars, ctxVars, callVars, orchVars, metricVars, stopVars, taskVars, taskQueue,
                   tqClosed, resultQueue, wpShutdown, wppc, submitVars,
                   resultChan, eptWg, activeProcesses, leased>>

\* worker: after safeExecute, select { wp.resultQueue <- err | <-wp.shutdown }
WorkerReport(i) ==
    /\ ~crashed
    /\ tpc[i] = "report"
    /\ tpc' = [tpc EXCEPT ![i] = "finished"]
    /\ \/ /\ Len(resultQueue) < ResultQueueCap
          /\ resultQueue' = Append(resultQueue,
                                   IF i \in tpanic THEN "panic in worker" ELSE "nil")
          /\ idleWorkers' = idleWorkers + 1
          /\ UNCHANGED <<exitedWorkers, wpWg, crashed>>
       \/ /\ wpShutdown
          /\ WorkerReturn
          /\ UNCHANGED <<resultQueue, idleWorkers>>
    /\ UNCHANGED <<cfgVars, cmVars, utVars, spVars, ctxVars, callVars, orchVars, metricVars, stopVars, tport, tres, tpanic,
                   taskQueue, tqClosed, wpShutdown, wppc, submitVars, resultChan,
                   eptWg, activeProcesses, leased>>

\* WorkerPool.Stop, first half: close(wp.shutdown); wp.cancel()
WorkerPoolStopClose ==
    /\ wppc = "none"
    /\ wpShutdown' = TRUE
    /\ wppc' = "waiting"

\* WorkerPool.Stop, second half: wp.wg.Wait() returns; close(wp.taskQueue)
WorkerPoolStopWait ==
    /\ wppc = "waiting"
    /\ wpWg = 0
    /\ tqClosed' = TRUE
    /\ wppc' = "stopped"

\* ---------------------------------------------------------------------
\* The task closure of TestConfigsSafe, run by a worker
\* ---------------------------------------------------------------------

\* the closure with the return after the resource_exhausted result forgotten
AfterCanTestNoReturn(ok) == "enter"

\* where the closure goes after canTest: into testConfigWithResources, or
\* to the send of the resource_exhausted result and the return
AfterCanTest(ok) == IF ok THEN "enter" ELSE "emit"

\* if !ept.canTest() { resultChan <- resource_exhausted; return }
TaskCanTest(i) ==
    /\ ~crashed
    /\ tpc[i] = "run"
    /\ \E memMB \in 0..MaxMemReading :
          LET ok == canTest(memMB, activeProcesses) IN
          /\ admit' = [admit EXCEPT ![i] = IF ok THEN "yes" ELSE "no"]
          /\ tpc' = [tpc EXCEPT ![i] = AfterCanTest(ok)]
          /\ tres' = IF ok THEN tres
                     ELSE [tres EXCEPT ![i] =
                             TestResultData(i, ResultResourceExhausted,
                                            "Insufficient resources", 0)]
    /\ texpired' = texpired /\ lateStart' = lateStart
    /\ UNCHANGED <<cfgVars, cmVars, utVars, spVars, callVars, orchVars, metricVars, stopVars, tport, tpanic,
                   poolVars, submitVars, resultChan, eptWg, activeProcesses,
                   leased, crashed>>

\* a derived context that never starts expired
ExpiredAtCreationNever == FALSE

\* context.WithTimeout(ept.ctx, Timeout): with Timeout <= 0 the context is
\* created already past its deadline
ExpiredAtCreation == timeout = 0

\* testConfigWithResources: ctx, cancel := context.WithTimeout(...), then
\* atomic.AddInt64(&ept.activeProcesses, 1)
TaskEnter(i) ==
    /\ ~crashed
    /\ tpc[i] = "enter"
    /\ texpired' = IF ExpiredAtCreation THEN texpired \cup {i} ELSE texpired
    /\ activeProcesses' = activeProcesses + 1
    /\ tpc' = [tpc EXCEPT ![i] = "acquire"]
    /\ admit' = admit /\ lateStart' = lateStart
    /\ UNCHANGED <<cfgVars, cmVars, utVars, spVars, callVars, orchVars, metricVars, stopVars, tport, tres, tpanic,
                   poolVars, submitVars, resultChan, eptWg, leased, crashed>>

\* testConfigWithResources: port, err := ept.portMgr.Acquire()
TaskAcquire(i) ==
    /\ ~crashed
    /\ tpc[i] = "acquire"
    /\ IF FreePorts(leased) = {}
       THEN /\ tres' = [tres EXCEPT ![i] =
                  TestResultData(i, ResultPortConflict,
                                 "Failed to acquire port", 0)]
            /\ tpc' = [tpc EXCEPT ![i] = "leave"]
            /\ texpired' = texpired \ {i}
            /\ UNCHANGED <<leased, tport>>
       ELSE \E p \in FreePorts(leased) :
               /\ leased' = leased \cup {p}
               /\ tport' = [tport EXCEPT ![i] = p]
               /\ tpc' = [tpc EXCEPT ![i] = "check"]
               /\ tres' = tres
               /\ texpired' = texpired
    /\ admit' = admit /\ lateStart' = lateStart
    /\ UNCHANGED <<cfgVars, cmVars, utVars, spVars, callVars, orchVars, metricVars, stopVars, tpanic, poolVars,
                   submitVars, resultChan, eptWg, activeProcesses, crashed>>

\* the Timeout deadline of the derived context of task i passes while the
\* task is inside testConfigWithResources
DeadlineExpires(i) ==
    /\ ~crashed
    /\ tpc[i] \in {"acquire", "check", "test"}
    /\ i \notin texpired
    /\ texpired' = texpired \cup {i}
    /\ admit' = admit /\ lateStart' = lateStart
    /\ UNCHANGED <<cfgVars, cmVars, utVars, spVars, callVars, orchVars, metricVars, stopVars, taskVars,
                   poolVars, submitVars, resultChan, eptWg, activeProcesses,
                   leased, crashed>>

\* what ctx.Err() can be when the derived context of task i is done: the
\* Tester's cancellation, or the task's own Timeout deadline
CtxErrs(i) == (IF ctxCancelled THEN {"context canceled"} ELSE {})
              \cup (IF i \in texpired THEN {"context deadline exceeded"} ELSE {})

\* testSingleConfigResourceAware: select { case <-ctx.Done(): ... default: },
\* and on the Done branch the return through testConfigWithResources
\* (ResponseTime = time.Since(start), deferred Release(port))
TaskCheckCtx(i) ==
    /\ ~crashed
    /\ tpc[i] = "check"
    /\ \/ /\ CtxErrs(i) = {}
          /\ tpc' = [tpc EXCEPT ![i] = "test"]
          /\ UNCHANGED <<tres, tport, leased, texpired, revoked>>
       \/ \E e \in CtxErrs(i) :
             /\ tres' = [tres EXCEPT ![i] =
                   TestResultData(i, ResultTimeout, "Test cancelled: " \o e, 1)]
             /\ leased' = Release(leased, tport[i])
             /\ tport' = [tport EXCEPT ![i] = 0]
             /\ tpc' = [tpc EXCEPT ![i] = "leave"]
             /\ texpired' = texpired \ {i}
             /\ revoked' = revoked \ {i}
    /\ admit' = admit /\ lateStart' = lateStart
    /\ UNCHANGED <<ctxCancelled, spc, stopCalls>>
    /\ UNCHANGED <<cfgVars, cmVars, utVars, spVars, callVars, orchVars, metricVars, tpanic, poolVars,
                   submitVars, resultChan, eptWg, activeProcesses, crashed>>

\* what testSingleConfig (defined outside this file) can do when it ends
TestOutcomes == {ResultSuccess, ResultFailure, "panic"}

\* testSingleConfig ends (it may also never end; it is not given the derived
\* context), result.ResponseTime is set, and the deferred Release(port) and
\* cancel() run, also while a panic unwinds
TaskTestDone(i) ==
    /\ ~crashed
    /\ tpc[i] = "test"
    /\ \E out \in TestOutcomes :
          IF out = "panic"
          THEN tpanic' = tpanic \cup {i} /\ tres' = tres
          ELSE /\ tres' = [tres EXCEPT ![i] = TestResultData(i, out, "", 1)]
               /\ tpanic' = tpanic
    /\ leased' = Release(leased, tport[i])
    /\ tport' = [tport EXCEPT ![i] = 0]
    /\ tpc' = [tpc EXCEPT ![i] = "leave"]
    /\ texpired' = texpired \ {i}
    /\ revoked' = revoked \ {i}
    /\ admit' = admit /\ lateStart' = lateStart
    /\ UNCHANGED <<ctxCancelled, spc, stopCalls>>
    /\ UNCHANGED <<cfgVars, cmVars, utVars, spVars, callVars, orchVars, metricVars, poolVars,
                   submitVars, resultChan, eptWg, activeProcesses, crashed>>

\* deferred atomic.AddInt64(&ept.activeProcesses, -1)
TaskLeave(i) ==
    /\ ~crashed
    /\ tpc[i] = "leave"
    /\ activeProcesses' = activeProcesses - 1
    /\ tpc' = [tpc EXCEPT ![i] = "emit"]
    /\ UNCHANGED <<cfgVars, cmVars, utVars, spVars, ctxVars, callVars, orchVars, metricVars, stopVars, tport, tres, tpanic,
                   poolVars, submitVars, resultChan, eptWg, leased, crashed>>

\* a result channel with room for one result less than the batch has configs
ResultChanCapOneShort == nConfigs - 1

\* resultChan := make(chan *TestResultData, len(configs))
ResultChanCap == nConfigs

\* resultChan <- result (skipped by a panic), then the deferred ept.wg.Done();
\* safeExecute returns to the worker
TaskEmit(i) ==
    /\ ~crashed
    /\ tpc[i] = "emit"
    /\ IF i \in tpanic
       THEN resultChan' = resultChan
       ELSE /\ Len(resultChan) < ResultChanCap
            /\ resultChan' = Append(resultChan, tres[i])
    /\ eptWg' = eptWg - 1
    /\ tpc' = [tpc EXCEPT ![i] = "report"]
    /\ lateStart' = lateStart \ {i}
    /\ UNCHANGED <<admit, texpired>>
    /\ UNCHANGED <<cfgVars, cmVars, utVars, spVars, callVars, orchVars, metricVars, stopVars, tport, tres, tpanic,
                   poolVars, submitVars, activeProcesses, leased, crashed>>

\* ---------------------------------------------------------------------
\* TestConfigsSafe (the orchestrator)
\* ---------------------------------------------------------------------

\* TestConfigsSafe without its check for the empty batch
EmptyBatchUnchecked == FALSE

\* if len(configs) == 0 { return nil, nil }
EmptyBatch == nConfigs = 0

\* WorkerPool.Start launching as many goroutines as taskQueue has slots
StartedWorkersQueueSized == maxWorkers * 2

\* WorkerPool.Start with one goroutine too many (i <= wp.maxWorkers)
StartedWorkersOffByOne == maxWorkers + 1

\* WorkerPool.Start: for i := 0; i < wp.maxWorkers; i++ { go wp.worker() }
StartedWorkers == maxWorkers

\* entry: the empty batch returns nil, nil; otherwise NewWorkerPool,
\* workerPool.Start() and make(chan *TestResultData, len(configs))
Call ==
    /\ ~crashed
    /\ opc = "idle"
    /\ IF EmptyBatch
       THEN opc' = "done" /\ idleWorkers' = idleWorkers
       ELSE opc' = "submit" /\ idleWorkers' = StartedWorkers
    /\ UNCHANGED <<cfgVars, cmVars, utVars, spVars, ctxVars, callVars, idx, retErr, results, metricVars, stopVars,
                   taskVars, taskQueue, tqClosed, resultQueue, wpShutdown,
                   wppc, wpWg, exitedWorkers, submitVars, resultChan, eptWg,
                   activeProcesses, leased, crashed>>

\* one iteration of the submission loop on a cancelled context:
\* return nil, fmt.Errorf("test cancelled: %w", ept.ctx.Err())
SubmitCancelled ==
    /\ ~crashed
    /\ opc = "submit"
    /\ ctxCancelled
    /\ retErr' = TRUE
    /\ results' = <<>>
    /\ opc' = "stopping"
    /\ UNCHANGED <<cfgVars, cmVars, utVars, spVars, ctxVars, callVars, idx, metricVars, stopVars, taskVars, poolVars,
                   submitVars, resultChan, eptWg, activeProcesses, leased,
                   crashed>>

\* one iteration of the submission loop otherwise: ept.wg.Add(1),
\* workerPool.Submit(task); on an error ept.wg.Done() and continue
SubmitTask ==
    /\ ~crashed
    /\ opc = "submit"
    /\ ~ctxCancelled
    /\ \E ret \in SubmitReturns :
          /\ Submit(idx, ret)
          /\ IF ret = "ok"
             THEN /\ eptWg' = eptWg + 1
                  /\ tpc' = [tpc EXCEPT ![idx] = "queued"]
             ELSE /\ eptWg' = eptWg
                  /\ tpc' = [tpc EXCEPT ![idx] = "dropped"]
    /\ idx' = idx + 1
    /\ opc' = IF idx = nConfigs THEN "wait" ELSE "submit"
    /\ UNCHANGED <<cfgVars, cmVars, utVars, spVars, ctxVars, callVars, retErr, results, metricVars, stopVars, tport, tres,
                   tpanic, tqClosed, resultQueue, wpShutdown, wppc, wpWg,
                   idleWorkers, exitedWorkers, resultChan, activeProcesses,
                   leased>>

\* ept.wg.Wait() returns; close(resultChan)
WaitTasks ==
    /\ ~crashed
    /\ opc = "wait"
    /\ eptWg = 0
    /\ opc' = "collect"
    /\ UNCHANGED <<cfgVars, cmVars, utVars, spVars, ctxVars, callVars, idx, retErr, results, metricVars, stopVars,
                   taskVars, poolVars, submitVars, resultChan, eptWg,
                   activeProcesses, leased, crashed>>

\* for result := range resultChan { append; ept.updateMetrics(result) }
Collect ==
    /\ ~crashed
    /\ opc = "collect"
    /\ resultChan # <<>>
    /\ results' = Append(results, Head(resultChan))
    /\ resultChan' = Tail(resultChan)
    /\ updateMetrics(Head(resultChan))
    /\ UNCHANGED <<cfgVars, cmVars, utVars, spVars, ctxVars, callVars, opc, idx, retErr, stopVars, taskVars, poolVars,
                   submitVars, eptWg, activeProcesses, leased, crashed>>

\* the range loop ends on the closed, drained channel: return results, nil
Return ==
    /\ ~crashed
    /\ opc = "collect"
    /\ resultChan = <<>>
    /\ opc' = "stopping"
    /\ UNCHANGED <<cfgVars, cmVars, utVars, spVars, ctxVars, callVars, idx, retErr, results, metricVars, stopVars,
                   taskVars, poolVars, submitVars, resultChan, eptWg,
                   activeProcesses, leased, crashed>>

\* defer workerPool.Stop(), first half
DeferStopClose ==
    /\ ~crashed
    /\ opc = "stopping"
    /\ WorkerPoolStopClose
    /\ UNCHANGED <<cfgVars, cmVars, utVars, spVars, ctxVars, callVars, orchVars, metricVars, stopVars, taskVars, taskQueue,
                   tqClosed, resultQueue, wpWg, idleWorkers, exitedWorkers,
                   submitVars, resultChan, eptWg, activeProcesses, leased,
                   crashed>>

\* defer workerPool.Stop(), second half; TestConfigsSafe has returned
DeferStopWait ==
    /\ ~crashed
    /\ opc = "stopping"
    /\ WorkerPoolStopWait
    /\ opc' = "done"
    /\ UNCHANGED <<cfgVars, cmVars, utVars, spVars, ctxVars, callVars, idx, retErr, results, metricVars, stopVars,
                   taskVars, taskQueue, resultQueue, wpShutdown, wpWg,
                   idleWorkers, exitedWorkers, submitVars, resultChan, eptWg,
                   activeProcesses, leased, crashed>>

\* ---------------------------------------------------------------------
\* EnhancedProxyTester.Stop (run by the signal handler)
\* ---------------------------------------------------------------------

\* ept.cancel(); close(ept.shutdown); go func() { ept.wg.Wait(); close(done) }()
StopCancel ==
    /\ ~crashed
    /\ spc = "idle"
    /\ ctxCancelled' = TRUE
    /\ spc' = "waiting"
    /\ stopCalls' = stopCalls + 1
    /\ revoked' = revoked
    /\ UNCHANGED <<cfgVars, cmVars, utVars, spVars, ctxVars, callVars, orchVars, metricVars, taskVars, poolVars,
                   submitVars, resultChan, eptWg, activeProcesses, leased,
                   crashed>>

\* select { case <-done: | case <-time.After(GracefulTimeout): }
StopWait ==
    /\ ~crashed
    /\ spc = "waiting"
    /\ \/ eptWg = 0      \* case <-done: ept.wg.Wait() returned
       \/ TRUE           \* case <-time.After(...): the timer may fire at any time
    /\ spc' = "cleanup"
    /\ UNCHANGED <<stopCalls, revoked>>
    /\ UNCHANGED <<cfgVars, cmVars, utVars, spVars, ctxVars, callVars, orchVars, metricVars, ctxCancelled, taskVars,
                   poolVars, submitVars, resultChan, eptWg, activeProcesses,
                   leased, crashed>>

\* ept.portMgr.ReleaseAll()
StopReleaseAll ==
    /\ ~crashed
    /\ spc = "cleanup"
    /\ leased' = ReleaseAll(leased)
    /\ revoked' = {i \in Tasks : tport[i] # 0}
    /\ spc' = "stopped"
    /\ stopCalls' = stopCalls
    /\ UNCHANGED <<cfgVars, cmVars, utVars, spVars, ctxVars, callVars, orchVars, metricVars, ctxCancelled, taskVars,
                   poolVars, submitVars, resultChan, eptWg, activeProcesses,
                   crashed>>

\* ---------------------------------------------------------------------
\* The program
\* ---------------------------------------------------------------------

Orchestrator ==
    \/ Call \/ SubmitCancelled \/ SubmitTask \/ WaitTasks \/ Collect \/ Return
    \/ DeferStopClose \/ DeferStopWait

Workers ==
    \/ WorkerTake \/ WorkerExitIdle \/ \E i \in Tasks : WorkerReport(i)

\* the steps of a running task other than the end of testSingleConfig
TaskProgress ==
    \E i \in Tasks :
       \/ TaskCanTest(i) \/ TaskEnter(i) \/ TaskAcquire(i) \/ TaskCheckCtx(i)
       \/ TaskLeave(i) \/ TaskEmit(i)

\* the clock: a task's deadline passes
Deadlines == \E i \in Tasks : DeadlineExpires(i)

TaskTestEnds == \E i \in Tasks : TaskTestDone(i)

TaskSteps == TaskProgress \/ TaskTestEnds

TesterStop == StopCancel \/ StopWait \/ StopReleaseAll

Next == Orchestrator \/ Workers \/ TaskSteps \/ Deadlines \/ TesterStop

Spec == Init /\ [][Next]_vars

\* The goroutines are scheduled fairly: the orchestrator, the workers and
\* the task steps that are plain code always get to run. Whether the external
\* test of a config ends is up to testSingleConfig: TermSpec assumes every
\* test terminates, HangSpec lets a test run forever. Nothing forces a
\* signal to arrive, so Tester.Stop has no fairness.
TermSpec == Spec /\ WF_vars(Orchestrator \/ Workers \/ TaskSteps)

HangSpec == Spec /\ WF_vars(Orchestrator \/ Workers \/ TaskProgress)

\* Once Stop has been invoked, the goroutine running it is scheduled and the
\* timer of time.After(GracefulTimeout) fires: the steps of Stop after its
\* first are taken
StopProceeds == StopWait \/ StopReleaseAll

StopSpec == Spec /\ WF_vars(StopProceeds)

\* ---------------------------------------------------------------------
\* Signals: setupSignalHandling starts one goroutine that makes one select
\* on sigChan and runs Stop for the signal it receives (StopCancel is that
\* receipt); then the goroutine is inside Stop and nothing reads sigChan
\* any more
\* ---------------------------------------------------------------------

\* a further signal arrives once the handler goroutine has left its select:
\* signal.Notify's sender puts it into the one-slot buffer of sigChan
SecondSignal ==
    /\ ~crashed
    /\ spc # "idle"
    /\ ~sigPending
    /\ sigPending' = TRUE
    /\ UNCHANGED <<ctMem, ctRet>>
    /\ UNCHANGED <<cfgVars, cmVars, utVars, spVars, ctxVars, orchVars, metricVars, stopVars, taskVars,
                   poolVars, submitVars, resultChan, eptWg, activeProcesses,
                   leased, crashed>>

\* the shutdown supervisor's state, read off the position of Stop
SupervisorState ==
    CASE spc = "idle" -> "Running"
      [] spc \in {"waiting", "cleanup"} -> "Draining"
      [] spc = "stopped" -> "Stopped"

\* ept.Stop() is invoked again (by the caller's completion path, or the
\* other way round) after an invocation has closed ept.shutdown: ept.cancel()
\* is a no-op, close(ept.shutdown) on the closed channel panics
StopAgain ==
    /\ ~crashed
    /\ stopCalls = 1
    /\ stopCalls' = stopCalls + 1
    /\ crashed' = TRUE
    /\ UNCHANGED <<ctxCancelled, spc, revoked>>
    /\ UNCHANGED <<cfgVars, cmVars, utVars, spVars, ctxVars, callVars, orchVars, metricVars, taskVars,
                   poolVars, submitVars, resultChan, eptWg, activeProcesses,
                   leased>>

SignalNext == Next \/ SecondSignal \/ StopAgain

SignalSpec == Init /\ [][SignalNext]_vars

\* ---------------------------------------------------------------------
\* The WorkerPool as a component: a pool that has been created and started,
\* a client that calls Submit with the batch's task closures and a client
\* that calls Stop, in any order.
\* ---------------------------------------------------------------------

PoolInit ==
    /\ nConfigs \in 1..MaxConfigs
    /\ maxWorkers \in 1..MaxWorkersBound
    /\ numPorts \in 1..MaxPorts
    /\ maxMemoryMB \in MemLimits
    /\ timeout \in Timeouts
    /\ opc = "client" /\ idx = 1 /\ retErr = FALSE /\ results = <<>>
    /\ resultChan = <<>> /\ eptWg = 0
    /\ ctxCancelled = FALSE /\ spc = "idle"
    /\ stopCalls = 0 /\ revoked = {} /\ lateStart = {}
    /\ activeProcesses = 0 /\ leased = {}
    /\ tpc = [i \in Tasks |-> "new"]
    /\ tport = [i \in Tasks |-> 0]
    /\ tres = [i \in Tasks |-> NoResult]
    /\ tpanic = {}
    /\ taskQueue = <<>> /\ tqClosed = FALSE /\ resultQueue = <<>>
    /\ wpShutdown = FALSE /\ wppc = "none" /\ wpWg = 0
    /\ idleWorkers = StartedWorkers /\ exitedWorkers = 0
    /\ crashed = FALSE
    /\ submitRet = "none" /\ nSubmits = 0
    /\ totalTests = 0 /\ successfulTests = 0 /\ failedTests = 0
    /\ avgResponseTime = <<0, 1>>
    /\ admit = [i \in Tasks |-> "none"]
    /\ texpired = {}
    /\ sigPending = FALSE
    /\ ctMem = 0 /\ ctRet = "none"
    /\ CmIdle /\ UtIdle /\ SpIdle

\* the client submits the next task closure: ept.wg.Add(1), Submit, and
\* ept.wg.Done() on an error, as the loop body of TestConfigsSafe does
ClientSubmit ==
    /\ ~crashed
    /\ opc = "client"
    /\ idx <= nConfigs
    /\ \E ret \in SubmitReturns :
          /\ Submit(idx, ret)
          /\ IF ret = "ok"
             THEN /\ eptWg' = eptWg + 1
                  /\ tpc' = [tpc EXCEPT ![idx] = "queued"]
             ELSE /\ eptWg' = eptWg
                  /\ tpc' = [tpc EXCEPT ![idx] = "dropped"]
    /\ idx' = idx + 1
    /\ UNCHANGED <<cfgVars, cmVars, utVars, spVars, ctxVars, callVars, opc, retErr, results, metricVars, stopVars, tport,
                   tres, tpanic, tqClosed, resultQueue, wpShutdown, wppc, wpWg,
                   idleWorkers, exitedWorkers, resultChan, activeProcesses,
                   leased>>

ClientStopClose ==
    /\ ~crashed
    /\ opc = "client"
    /\ WorkerPoolStopClose
    /\ UNCHANGED <<cfgVars, cmVars, utVars, spVars, ctxVars, callVars, orchVars, metricVars, stopVars, taskVars, taskQueue,
                   tqClosed, resultQueue, wpWg, idleWorkers, exitedWorkers,
                   submitVars, resultChan, eptWg, activeProcesses, leased,
                   crashed>>

ClientStopWait ==
    /\ ~crashed
    /\ opc = "client"
    /\ WorkerPoolStopWait
    /\ UNCHANGED <<cfgVars, cmVars, utVars, spVars, ctxVars, callVars, orchVars, metricVars, stopVars, taskVars, taskQueue,
                   resultQueue, wpShutdown, wpWg, idleWorkers, exitedWorkers,
                   submitVars, resultChan, eptWg, activeProcesses, leased,
                   crashed>>

PoolNext ==
    \/ ClientSubmit \/ ClientStopClose \/ ClientStopWait \/ Workers \/ TaskSteps
    \/ Deadlines

PoolSpec == PoolInit /\ [][PoolNext]_vars

\* ---------------------------------------------------------------------
\* canTest on its own: every combination of MaxMemoryMB, MaxWorkers,
\* activeProcesses and memory reading
\* ---------------------------------------------------------------------

\* MaxMemoryMB is an int read from PROXY_MAX_MEMORY_MB: any sign
AdmissionLimits == -1..MaxMemReading

AdmissionInit ==
    /\ nConfigs = 0
    /\ maxWorkers \in 1..MaxWorkersBound
    /\ numPorts = 1
    /\ maxMemoryMB \in AdmissionLimits
    /\ timeout = 1
    /\ opc = "idle" /\ idx = 1 /\ retErr = FALSE /\ results = <<>>
    /\ resultChan = <<>> /\ eptWg = 0
    /\ ctxCancelled = FALSE /\ spc = "idle"
    /\ stopCalls = 0 /\ revoked = {} /\ lateStart = {}
    /\ activeProcesses \in 0..(MaxWorkersBound + 1) /\ leased = {}
    /\ tpc = [i \in Tasks |-> "new"]
    /\ tport = [i \in Tasks |-> 0]
    /\ tres = [i \in Tasks |-> NoResult]
    /\ tpanic = {}
    /\ taskQueue = <<>> /\ tqClosed = FALSE /\ resultQueue = <<>>
    /\ wpShutdown = FALSE /\ wppc = "none" /\ wpWg = 0
    /\ idleWorkers = 0 /\ exitedWorkers = 0
    /\ crashed = FALSE
    /\ submitRet = "none" /\ nSubmits = 0
    /\ totalTests = 0 /\ successfulTests = 0 /\ failedTests = 0
    /\ avgResponseTime = <<0, 1>>
    /\ admit = [i \in Tasks |-> "none"]
    /\ texpired = {}
    /\ sigPending = FALSE
    /\ ctMem = 0 /\ ctRet = "none"
    /\ CmIdle /\ UtIdle /\ SpIdle

\* one call of canTest: runtime.ReadMemStats gives the reading, the answer
\* is recorded
CanTestCall ==
    \E memMB \in 0..MaxMemReading :
       /\ ctMem' = memMB
       /\ ctRet' = IF canTest(memMB, activeProcesses) THEN "admit" ELSE "deny"
       /\ sigPending' = sigPending
       /\ UNCHANGED <<cfgVars, cmVars, utVars, spVars, ctxVars, orchVars, metricVars, stopVars,
                      taskVars, poolVars, submitVars, resultChan, eptWg,
                      activeProcesses, leased, crashed>>

AdmissionNext == CanTestCall

AdmissionSpec == AdmissionInit /\ [][AdmissionNext]_vars

\* ---------------------------------------------------------------------
\* ConfigManager (src/main/src/ConfigManager.cpp): the singleton, the config
\* files it reads and writes, and the calls a client makes on it
\* ---------------------------------------------------------------------

\* the Go harness at rest
GoIdle ==
    /\ nConfigs = 0 /\ maxWorkers = 1 /\ numPorts = 1 /\ maxMemoryMB = 0
    /\ timeout = 1
    /\ opc = "idle" /\ idx = 1 /\ retErr = FALSE /\ results = <<>>
    /\ resultChan = <<>> /\ eptWg = 0
    /\ ctxCancelled = FALSE /\ spc = "idle"
    /\ stopCalls = 0 /\ revoked = {} /\ lateStart = {}
    /\ activeProcesses = 0 /\ leased = {}
    /\ tpc = [i \in Tasks |-> "new"]
    /\ tport = [i \in Tasks |-> 0]
    /\ tres = [i \in Tasks |-> NoResult]
    /\ tpanic = {}
    /\ taskQueue = <<>> /\ tqClosed = FALSE /\ resultQueue = <<>>
    /\ wpShutdown = FALSE /\ wppc = "none" /\ wpWg = 0
    /\ idleWorkers = 0 /\ exitedWorkers = 0
    /\ crashed = FALSE
    /\ submitRet = "none" /\ nSubmits = 0
    /\ totalTests = 0 /\ successfulTests = 0 /\ failedTests = 0
    /\ avgResponseTime = <<0, 1>>
    /\ admit = [i \in Tasks |-> "none"]
    /\ texpired = {}
    /\ sigPending = FALSE
    /\ ctMem = 0 /\ ctRet = "none"

goVars == <<cfgVars, orchVars, metricVars, stopVars, taskVars, poolVars,
            submitVars, ctxVars, callVars, resultChan, eptWg, activeProcesses,
            leased, crashed>>

\* QJsonValue: a string, a number (a double), a bool, or undefined for a
\* key the object does not have
JsonString(str) == [t |-> "string", v |-> str]
JsonNumber(n) == [t |-> "double", v |-> n]
JsonBool(b) == [t |-> "bool", v |-> b]
JsonUndefined == [t |-> "undefined"]

\* QJsonObject::operator[](key)
JsonAt(obj, key) == IF key \in DOMAIN obj THEN obj[key] ELSE JsonUndefined

\* QJsonValue::toString(default), toInt(default), toBool(default): the value
\* when it has the type asked for, else the default
toString(val, def) == IF val.t = "string" THEN val.v ELSE def
toInt(val, def) == IF val.t = "double" THEN val.v ELSE def
toBool(val, def) == IF val.t = "bool" THEN val.v ELSE def

\* saveConfig with the requestTimeout line forgotten
ConfigToJsonNoTimeout(c) ==
    [dataDirectory |-> JsonString(c.dataDirectory),
     subFilePath |-> JsonString(c.subFilePath),
     configOutputDirectory |-> JsonString(c.configOutputDirectory),
     workingDirectory |-> JsonString(c.workingDirectory),
     maxConcurrentDownloads |-> JsonNumber(c.maxConcurrentDownloads),
     createMissingDirectories |-> JsonBool(c.createMissingDirectories),
     verboseLogging |-> JsonBool(c.verboseLogging),
     lastModified |-> JsonString("now"),
     applicationVersion |-> JsonString("2.0.0"),
     configVersion |-> JsonString("1.0")]

\* saveConfig: the QJsonObject built from m_config
ConfigToJson(c) ==
    [dataDirectory |-> JsonString(c.dataDirectory),
     subFilePath |-> JsonString(c.subFilePath),
     configOutputDirectory |-> JsonString(c.configOutputDirectory),
     workingDirectory |-> JsonString(c.workingDirectory),
     maxConcurrentDownloads |-> JsonNumber(c.maxConcurrentDownloads),
     requestTimeout |-> JsonNumber(c.requestTimeout),
     createMissingDirectories |-> JsonBool(c.createMissingDirectories),
     verboseLogging |-> JsonBool(c.verboseLogging),
     lastModified |-> JsonString("now"),
     applicationVersion |-> JsonString("2.0.0"),
     configVersion |-> JsonString("1.0")]

\* loadConfig: m_config as read from the QJsonObject, with the fallbacks
JsonToConfig(obj) ==
    [dataDirectory |->
        toString(JsonAt(obj, "dataDirectory"), DefaultConfig.dataDirectory),
     subFilePath |->
        toString(JsonAt(obj, "subFilePath"), DefaultConfig.subFilePath),
     configOutputDirectory |->
        toString(JsonAt(obj, "configOutputDirectory"),
                 DefaultConfig.configOutputDirectory),
     workingDirectory |->
        toString(JsonAt(obj, "workingDirectory"),
                 DefaultConfig.workingDirectory),
     maxConcurrentDownloads |->
        toInt(JsonAt(obj, "maxConcurrentDownloads"), 10),
     requestTimeout |-> toInt(JsonAt(obj, "requestTimeout"), 30000),
     createMissingDirectories |->
        toBool(JsonAt(obj, "createMissingDirectories"), TRUE),
     verboseLogging |-> toBool(JsonAt(obj, "verboseLogging"), TRUE)]

\* validateConfig: the messages it appends to m_errors, in order
ConfigErrors(c) ==
    LET checks ==
          << <<c.dataDirectory = "", "Data directory is not specified">>,
             <<c.subFilePath = "", "Subscription file path is not specified">>,
             <<c.configOutputDirectory = "",
               "Config output directory is not specified">>,
             <<c.workingDirectory = "", "Working directory is not specified">>,
             <<c.maxConcurrentDownloads <= 0,
               "Max concurrent downloads must be positive">>,
             <<c.requestTimeout <= 0, "Request timeout must be positive">> >>
        failing == SelectSeq(checks, LAMBDA ck : ck[1])
    IN  [k \in 1..Len(failing) |-> failing[k][2]]

\* a config file somebody else wrote: a JSON object with a key of the wrong
\* type and the other keys missing
ForeignObject ==
    [dataDirectory |-> JsonString("ext"),
     maxConcurrentDownloads |-> JsonString("5")]

CmInit ==
    /\ GoIdle /\ UtIdle /\ SpIdle
    /\ m_config = ZeroConfig
    /\ m_configFilePath = ""
    /\ m_errors = <<>>
    /\ cmFiles \in [FilePaths -> {NoFile, GarbageFile, ObjectFile(ForeignObject)}]
    /\ cmSaved = [f \in FilePaths |-> [saved |-> FALSE, config |-> ZeroConfig]]
    /\ cmOp = NoCall

\* loadConfig looking for the file when no path is given: the first of the
\* candidate locations that exists ("" when none does)
FindConfigFile ==
    IF cmFiles[AppConfigPath].kind # "absent" THEN AppConfigPath ELSE ""

\* bool ConfigManager::loadConfig(const QString& configPath)
loadConfig(configPath) ==
    LET configFilePath ==
            IF configPath = "" THEN FindConfigFile ELSE configPath
        cannotOpen ==
            configFilePath \notin FilePaths
               \/ cmFiles[configFilePath].kind = "absent"
        loaded == JsonToConfig(cmFiles[configFilePath].obj)
    IN
    /\ IF configFilePath = ""
       THEN \* "No config file found, using defaults"
            /\ m_config' = DefaultConfig
            /\ cmOp' = [op |-> "loadConfig", path |-> configPath, ret |-> TRUE]
            /\ UNCHANGED <<m_configFilePath, m_errors>>
       ELSE IF cannotOpen \/ cmFiles[configFilePath].kind = "garbage"
       THEN \* "Failed to open config file" / "Invalid JSON in config file"
            /\ m_config' = DefaultConfig
            /\ cmOp' = [op |-> "loadConfig", path |-> configPath, ret |-> FALSE]
            /\ UNCHANGED <<m_configFilePath, m_errors>>
       ELSE /\ m_config' = loaded
            /\ m_configFilePath' = configFilePath
            /\ m_errors' = ConfigErrors(loaded)
            /\ cmOp' = [op |-> "loadConfig", path |-> configPath,
                        ret |-> ConfigErrors(loaded) = <<>>]
    /\ UNCHANGED <<cmFiles, cmSaved, goVars, utVars, spVars>>

\* bool ConfigManager::saveConfig(const QString& configPath)
saveConfig(configPath) ==
    LET savePath ==
            IF configPath # "" THEN configPath
            ELSE IF m_configFilePath # "" THEN m_configFilePath
            ELSE AppConfigPath
    IN
    /\ IF savePath \notin FilePaths
       THEN \* "Failed to save config to"
            /\ cmOp' = [op |-> "saveConfig", path |-> configPath, ret |-> FALSE]
            /\ UNCHANGED <<cmFiles, cmSaved, m_configFilePath>>
       ELSE /\ cmFiles' = [cmFiles EXCEPT
                             ![savePath] = ObjectFile(ConfigToJson(m_config))]
            /\ cmSaved' = [cmSaved EXCEPT
                             ![savePath] = [saved |-> TRUE, config |-> m_config]]
            /\ m_configFilePath' = savePath
            /\ cmOp' = [op |-> "saveConfig", path |-> configPath, ret |-> TRUE]
    /\ UNCHANGED <<m_config, m_errors, goVars, utVars, spVars>>

\* bool ConfigManager::validateConfig() const
validateConfig ==
    /\ m_errors' = ConfigErrors(m_config)
    /\ cmOp' = [op |-> "validateConfig", path |-> "",
                ret |-> ConfigErrors(m_config) = <<>>]
    /\ UNCHANGED <<m_config, m_configFilePath, cmFiles, cmSaved, goVars, utVars, spVars>>

\* void ConfigManager::resetToDefaults()
resetToDefaults ==
    /\ m_config' = DefaultConfig
    /\ m_configFilePath' = ""
    /\ m_errors' = <<>>
    /\ cmOp' = [op |-> "resetToDefaults", path |-> "", ret |-> TRUE]
    /\ UNCHANGED <<cmFiles, cmSaved, goVars, utVars, spVars>>

\* the tests write fields of the Config through
\* const_cast<ConfigManager::Config&>(configMgr.getConfig())
setConfig(c) ==
    /\ m_config' = c
    /\ cmOp' = [op |-> "setConfig", path |-> "", ret |-> TRUE]
    /\ UNCHANGED <<m_configFilePath, m_errors, cmFiles, cmSaved, goVars, utVars, spVars>>

CmNext ==
    \/ \E configPath \in PathArgs : loadConfig(configPath)
    \/ \E configPath \in PathArgs : saveConfig(configPath)
    \/ validateConfig
    \/ resetToDefaults
    \/ \E c \in TestConfigs : setConfig(c)

CmSpec == CmInit /\ [][CmNext]_vars

\* ---------------------------------------------------------------------
\* Utils (src/unnamed/part_002): the file operations that track their
\* failure in the static m_lastError
\* ---------------------------------------------------------------------

\* setLastError that loses the message
setLastErrorDropped(error) == ""

\* void Utils::setLastError(const QString& error): the new m_lastError
setLastError(error) == error

\* void Utils::clearError(): the new m_lastError
clearError == ""

\* bool Utils::hasError()
hasError == m_lastError # ""

UtilsInit ==
    /\ GoIdle /\ CmIdle /\ SpIdle
    /\ m_lastError = ""
    /\ utFiles = {}
    /\ utDir \in BOOLEAN
    /\ utOp = [op |-> "none", failed |-> FALSE, hadError |-> FALSE]

\* the record of a call that has returned
UtReturned(name, didFail) ==
    utOp' = [op |-> name, failed |-> didFail, hadError |-> hasError]

\* the nested ensureDirectoryExists(QFileInfo(path).absolutePath()) of the
\* writing operations: whether it returns true, mkpath succeeding or not
DirReady(mkpathOk) == utDir \/ mkpathOk

\* QString Utils::readFileText(const QString& filePath)
readFileText(filePath, openOk) ==
    /\ IF filePath \notin utFiles
       THEN /\ m_lastError' = setLastError("File does not exist: " \o filePath)
            /\ UtReturned("readFileText", TRUE)
       ELSE IF ~openOk
       THEN /\ m_lastError' =
                  setLastError("Cannot open file for reading: " \o filePath)
            /\ UtReturned("readFileText", TRUE)
       ELSE /\ m_lastError' = clearError
            /\ UtReturned("readFileText", FALSE)
    /\ UNCHANGED <<utFiles, utDir, goVars, cmVars, spVars>>

\* bool Utils::readFile(const QString& filePath, QByteArray& data)
readFile(filePath, openOk) ==
    /\ IF filePath \notin utFiles
       THEN /\ m_lastError' = setLastError("File does not exist: " \o filePath)
            /\ UtReturned("readFile", TRUE)
       ELSE IF ~openOk
       THEN /\ m_lastError' =
                  setLastError("Cannot open file for reading: " \o filePath)
            /\ UtReturned("readFile", TRUE)
       ELSE /\ m_lastError' = clearError
            /\ UtReturned("readFile", FALSE)
    /\ UNCHANGED <<utFiles, utDir, goVars, cmVars, spVars>>

\* bool Utils::writeFileText(const QString& filePath, const QString& content)
writeFileText(filePath, mkpathOk, openOk) ==
    /\ IF ~DirReady(mkpathOk)
       THEN /\ m_lastError' =
                  setLastError("Cannot create directory for file: " \o filePath)
            /\ UtReturned("writeFileText", TRUE)
            /\ UNCHANGED <<utFiles, utDir>>
       ELSE IF ~openOk
       THEN /\ m_lastError' =
                  setLastError("Cannot open file for writing: " \o filePath)
            /\ UtReturned("writeFileText", TRUE)
            /\ utDir' = TRUE
            /\ UNCHANGED utFiles
       ELSE /\ m_lastError' = clearError
            /\ UtReturned("writeFileText", FALSE)
            /\ utDir' = TRUE
            /\ utFiles' = utFiles \cup {filePath}
    /\ UNCHANGED <<goVars, cmVars, spVars>>

\* bool Utils::appendFileText(const QString& filePath, const QString& content)
appendFileText(filePath, mkpathOk, openOk) ==
    /\ IF ~DirReady(mkpathOk)
       THEN /\ m_lastError' =
                  setLastError("Cannot create directory for file: " \o filePath)
            /\ UtReturned("appendFileText", TRUE)
            /\ UNCHANGED <<utFiles, utDir>>
       ELSE IF ~openOk
       THEN /\ m_lastError' =
                  setLastError("Cannot open file for appending: " \o filePath)
            /\ UtReturned("appendFileText", TRUE)
            /\ utDir' = TRUE
            /\ UNCHANGED utFiles
       ELSE /\ m_lastError' = clearError
            /\ UtReturned("appendFileText", FALSE)
            /\ utDir' = TRUE
            /\ utFiles' = utFiles \cup {filePath}
    /\ UNCHANGED <<goVars, cmVars, spVars>>

\* bool Utils::writeFile(const QString& filePath, const QByteArray& data)
writeFile(filePath, mkpathOk, openOk, allWritten) ==
    /\ IF ~DirReady(mkpathOk)
       THEN /\ m_lastError' =
                  setLastError("Cannot create directory for file: " \o filePath)
            /\ UtReturned("writeFile", TRUE)
            /\ UNCHANGED <<utFiles, utDir>>
       ELSE IF ~openOk
       THEN /\ m_lastError' =
                  setLastError("Cannot open file for writing: " \o filePath)
            /\ UtReturned("writeFile", TRUE)
            /\ utDir' = TRUE
            /\ UNCHANGED utFiles
       ELSE IF ~allWritten
       THEN /\ m_lastError' =
                  setLastError("Incomplete write to file: " \o filePath)
            /\ UtReturned("writeFile", TRUE)
            /\ utDir' = TRUE
            /\ utFiles' = utFiles \cup {filePath}
       ELSE /\ m_lastError' = clearError
            /\ UtReturned("writeFile", FALSE)
            /\ utDir' = TRUE
            /\ utFiles' = utFiles \cup {filePath}
    /\ UNCHANGED <<goVars, cmVars, spVars>>

\* bool Utils::ensureDirectoryExists(const QString& path)
ensureDirectoryExists(mkpathOk) ==
    /\ IF utDir
       THEN /\ m_lastError' = clearError
            /\ UtReturned("ensureDirectoryExists", FALSE)
            /\ UNCHANGED utDir
       ELSE IF ~mkpathOk
       THEN /\ m_lastError' = setLastError("Cannot create directory: dir")
            /\ UtReturned("ensureDirectoryExists", TRUE)
            /\ UNCHANGED utDir
       ELSE /\ m_lastError' = clearError
            /\ UtReturned("ensureDirectoryExists", FALSE)
            /\ utDir' = TRUE
    /\ UNCHANGED <<utFiles, goVars, cmVars, spVars>>

\* bool Utils::copyFile(const QString& source, const QString& destination)
\* (QFile::copy does not overwrite an existing destination)
copyFile(source, destination, copyOk) ==
    /\ IF source \notin utFiles
       THEN /\ m_lastError' =
                  setLastError("Source file does not exist: " \o source)
            /\ UtReturned("copyFile", TRUE)
            /\ UNCHANGED utFiles
       ELSE IF destination \in utFiles \/ ~copyOk
       THEN /\ m_lastError' =
                  setLastError("Failed to copy file from " \o source
                                  \o " to " \o destination)
            /\ UtReturned("copyFile", TRUE)
            /\ UNCHANGED utFiles
       ELSE /\ m_lastError' = clearError
            /\ UtReturned("copyFile", FALSE)
            /\ utFiles' = utFiles \cup {destination}
    /\ UNCHANGED <<utDir, goVars, cmVars, spVars>>

\* bool Utils::removeFile(const QString& filePath)
removeFile(filePath, removeOk) ==
    /\ IF filePath \notin utFiles
       THEN \* "File doesn't exist, consider it success"
            /\ m_lastError' = clearError
            /\ UtReturned("removeFile", FALSE)
            /\ UNCHANGED utFiles
       ELSE IF ~removeOk
       THEN /\ m_lastError' =
                  setLastError("Failed to remove file: " \o filePath)
            /\ UtReturned("removeFile", TRUE)
            /\ UNCHANGED utFiles
       ELSE /\ m_lastError' = clearError
            /\ UtReturned("removeFile", FALSE)
            /\ utFiles' = utFiles \ {filePath}
    /\ UNCHANGED <<utDir, goVars, cmVars, spVars>>

\* a client calling Utils::clearError()
callClearError ==
    /\ m_lastError' = clearError
    /\ UtReturned("clearError", FALSE)
    /\ UNCHANGED <<utFiles, utDir, goVars, cmVars, spVars>>

\* the operations that begin with clearError() and report through
\* setLastError
TrackedOps ==
    {"readFileText", "writeFileText", "appendFileText", "readFile",
     "writeFile", "copyFile", "removeFile", "ensureDirectoryExists"}

UtilsNext ==
    \/ \E filePath \in UtPaths, openOk \in BOOLEAN :
          readFileText(filePath, openOk)
    \/ \E filePath \in UtPaths, openOk \in BOOLEAN :
          readFile(filePath, openOk)
    \/ \E filePath \in UtPaths, mkpathOk, openOk \in BOOLEAN :
          writeFileText(filePath, mkpathOk, openOk)
    \/ \E filePath \in UtPaths, mkpathOk, openOk \in BOOLEAN :
          appendFileText(filePath, mkpathOk, openOk)
    \/ \E filePath \in UtPaths, mkpathOk, openOk, allWritten \in BOOLEAN :
          writeFile(filePath, mkpathOk, openOk, allWritten)
    \/ \E mkpathOk \in BOOLEAN : ensureDirectoryExists(mkpathOk)
    \/ \E source, destination \in UtPaths, copyOk \in BOOLEAN :
          copyFile(source, destination, copyOk)
    \/ \E filePath \in UtPaths, removeOk \in BOOLEAN :
          removeFile(filePath, removeOk)
    \/ callClearError

UtilsSpec == UtilsInit /\ [][UtilsNext]_vars

\* ---------------------------------------------------------------------
\* SubParser::ParseSingleLink and the TryParseLink of the four bean classes
\* (src/unnamed/part_001). A link string is given by what the parser can
\* see of it: its scheme, whether the part before '#' contains '@', what
\* the text after "://" decodes to as base64, and QUrl's view of the whole.
\* ---------------------------------------------------------------------

Schemes == {"vmess", "ss", "trojan", "vless", "socks", "http", "https", "invalid"}

\* userName() values: none, a plain name, and base64 of "m:p"
B64MethodPassword == "bTpw"
UrlUsers == {"", "u", B64MethodPassword}

UrlViews ==
    {InvalidUrl}
      \cup {UrlView(TRUE, h, u, pw) : h \in {"", "h"}, u \in UrlUsers,
                                      pw \in {"", "p"}}

\* JSON documents a vmess link may carry: not an object (or an empty one),
\* an object without "add", with an "add" that is not a string, with an
\* empty "add", and a complete one
VmessObjects ==
    << [k \in {} |-> JsonUndefined],
       [id |-> JsonString("u")],
       [id |-> JsonString("u"), add |-> JsonNumber(5)],
       [id |-> JsonString("u"), add |-> JsonString("")],
       [id |-> JsonString("u"), add |-> JsonString("h")],
       [add |-> JsonString("h")] >>

\* texts a ss link may carry in base64: "m:p@h:1", "m:p@" and "h:1"
SsTexts ==
    << UrlView(TRUE, "h", "m", "p"), UrlView(TRUE, "", "m", "p"),
       UrlView(TRUE, "h", "", "") >>

Decodings ==
    {EmptyBytes} \cup {JsonBytes(VmessObjects[k]) : k \in DOMAIN VmessObjects}
                 \cup {TextBytes(SsTexts[k]) : k \in DOMAIN SsTexts}

\* the link strings: a text with '@' is not base64, and a text without '@'
\* has no user info
Links ==
    {l \in [scheme : Schemes, hasAt : BOOLEAN, decoded : Decodings,
            url : UrlViews] :
        /\ l.hasAt => l.decoded = EmptyBytes
        /\ ~l.hasAt => l.url.user = "" /\ l.url.pass = ""}

\* DecodeB64IfValid(SubStrAfter(link, sep)) for sep = scheme + "://":
\* SubStrAfter is empty when the link does not contain sep
DecodeAfter(link, scheme) ==
    IF link.scheme = scheme THEN link.decoded ELSE EmptyBytes

\* DecodeB64IfValid of a userName(): the text, split at ':' by
\* SubStrBefore / SubStrAfter (no ':' leaves the whole before, nothing after)
DecodeUser(user) ==
    IF user = B64MethodPassword THEN [ok |-> TRUE, before |-> "m", after |-> "p"]
    ELSE IF user = "" THEN [ok |-> FALSE, before |-> "", after |-> ""]
    ELSE [ok |-> TRUE, before |-> "?", after |-> ""]

\* QJsonObject QString2QJsonObject: the object, or the empty object for a
\* text that is not a JSON object
QString2QJsonObject(bytes) ==
    IF bytes.kind = "json" THEN bytes.obj ELSE [k \in {} |-> JsonUndefined]

\* QUrl("https://" + linkN)
UrlOfText(bytes) == IF bytes.kind = "text" THEN bytes.url ELSE InvalidUrl

Parsed(ret, bean) == [ret |-> ret, bean |-> bean]

\* bool VMessBean::TryParseLink(const QString &link)
VMessTryParseLink(bean, link) ==
    LET b == [bean EXCEPT !.type = "vmess"]
        linkN == DecodeAfter(link, "vmess")
        objN == QString2QJsonObject(linkN)
        bN == [b EXCEPT !.uuid = toString(JsonAt(objN, "id"), ""),
                        !.serverAddress = toString(JsonAt(objN, "add"), "")]
        bU == [b EXCEPT !.serverAddress = link.url.host,
                        !.uuid = link.url.user]
    IN  IF linkN.kind # "empty"
        THEN IF DOMAIN objN = {} THEN Parsed(FALSE, b)
             ELSE Parsed(TRUE, bN)
        ELSE IF ~link.url.valid THEN Parsed(FALSE, b)
        ELSE Parsed(~(bU.uuid = "" \/ bU.serverAddress = ""), bU)

\* bool ShadowSocksBean::TryParseLink(const QString &link)
ShadowSocksTryParseLink(bean, link) ==
    LET b == [bean EXCEPT !.type = "shadowsocks"]
        url == link.url
        bA == [b EXCEPT !.serverAddress = url.host]
        mp == DecodeUser(url.user)
        bA1 == IF url.pass = ""
               THEN [bA EXCEPT !.method = mp.before, !.password = mp.after]
               ELSE [bA EXCEPT !.method = url.user, !.password = url.pass]
        linkN == link.decoded
        urlN == UrlOfText(linkN)
        bN == [b EXCEPT !.serverAddress = urlN.host, !.method = urlN.user,
                        !.password = urlN.pass]
        complete(x) ==
            ~(x.serverAddress = "" \/ x.method = "" \/ x.password = "")
    IN  IF link.hasAt
        THEN IF ~url.valid THEN Parsed(FALSE, b)
             ELSE IF url.pass = "" /\ ~mp.ok THEN Parsed(FALSE, bA)
             ELSE Parsed(complete(bA1), bA1)
        ELSE IF linkN.kind = "empty" THEN Parsed(FALSE, b)
             ELSE Parsed(complete(bN), bN)

\* bool TrojanVLESSBean::TryParseLink(const QString &link)
TrojanVLESSTryParseLink(bean, link) ==
    LET url == link.url
        b == IF link.scheme = "trojan" THEN [bean EXCEPT !.type = "trojan"]
             ELSE IF link.scheme = "vless" THEN [bean EXCEPT !.type = "vless"]
             ELSE bean
        bU == [b EXCEPT !.serverAddress = url.host, !.password = url.user]
    IN  IF ~url.valid THEN Parsed(FALSE, bean)
        ELSE Parsed(~(bU.password = "" \/ bU.serverAddress = ""), bU)

\* bool SocksHttpBean::TryParseLink(const QString &link); the user name and
\* password it also fills in play no part in what it returns
SocksHttpTryParseLink(bean, link) ==
    LET url == link.url
        b == IF link.scheme = "socks" THEN [bean EXCEPT !.type = "socks"]
             ELSE IF link.scheme \in {"http", "https"}
             THEN [bean EXCEPT !.type = "http"]
             ELSE bean
        bU == [b EXCEPT !.serverAddress = url.host, !.password = url.pass]
    IN  IF ~url.valid THEN Parsed(FALSE, bean)
        ELSE Parsed(bU.serverAddress # "", bU)

BeanClasses == {"VMessBean", "ShadowSocksBean", "TrojanVLESSBean", "SocksHttpBean"}

\* bean->TryParseLink(link), by the class of the bean
TryParseLink(bean, link) ==
    CASE bean.cls = "VMessBean" -> VMessTryParseLink(bean, link)
      [] bean.cls = "ShadowSocksBean" -> ShadowSocksTryParseLink(bean, link)
      [] bean.cls = "TrojanVLESSBean" -> TrojanVLESSTryParseLink(bean, link)
      [] bean.cls = "SocksHttpBean" -> SocksHttpTryParseLink(bean, link)

\* std::shared_ptr<ProxyBean> SubParser::ParseSingleLink(const QString &str):
\* ret FALSE is the null pointer
ParseSingleLink(str) ==
    LET typed(cls, t) == [NewBean(cls) EXCEPT !.type = t]
        bean == CASE str.scheme = "vmess" -> typed("VMessBean", "")
                  [] str.scheme = "ss" -> typed("ShadowSocksBean", "")
                  [] str.scheme = "trojan" -> typed("TrojanVLESSBean", "trojan")
                  [] str.scheme = "vless" -> typed("TrojanVLESSBean", "vless")
                  [] str.scheme \in {"socks", "http", "https"} ->
                        typed("SocksHttpBean", "")
                  [] OTHER -> NewBean("none")
    IN  IF bean.cls = "none" THEN Parsed(FALSE, bean)
        ELSE LET r == TryParseLink(bean, str)
             IN  IF r.ret THEN r ELSE Parsed(FALSE, NewBean("none"))

ParserInit ==
    /\ GoIdle /\ CmIdle /\ UtIdle
    /\ spLink \in Links
    /\ spBean = NewBean("none")
    /\ spOp = [op |-> "none", ret |-> FALSE]

\* a client calls TryParseLink on a bean it has just made, or once more on
\* the bean of its previous call (as testTryParseLinkMethods does)
CallTryParseLink(cls) ==
    /\ \E bean \in {NewBean(cls)}
                     \cup (IF spBean.cls = cls THEN {spBean} ELSE {}) :
          LET r == TryParseLink(bean, spLink) IN
          /\ spBean' = r.bean
          /\ spOp' = [op |-> cls, ret |-> r.ret]
    /\ UNCHANGED <<spLink, goVars, cmVars, utVars>>

\* a client calls SubParser::ParseSingleLink
CallParseSingleLink ==
    /\ LET r == ParseSingleLink(spLink) IN
          /\ spBean' = r.bean
          /\ spOp' = [op |-> "ParseSingleLink", ret |-> r.ret]
    /\ UNCHANGED <<spLink, goVars, cmVars, utVars>>

\* the client goes on to another link
NextLink ==
    /\ spOp.op # "none"
    /\ spLink' \in Links
    /\ spOp' = [op |-> "none", ret |-> FALSE]
    /\ UNCHANGED <<spBean, goVars, cmVars, utVars>>

ParserNext ==
    \/ \E cls \in BeanClasses : CallTryParseLink(cls)
    \/ CallParseSingleLink
    \/ NextLink

ParserSpec == ParserInit /\ [][ParserNext]_vars

\* ---------------------------------------------------------------------
\* Claims
\* ---------------------------------------------------------------------

\* TestConfigsSafe has returned (results, nil) to its caller
ReturnedResults == opc = "done" /\ ~retErr

\* TestConfigsSafe has returned to its caller, with or without an error
Returned == opc = "done"

\* C1: every call of TestConfigsSafe that returns its results returns exactly
\* one result per config: len(results) = len(configs).
C1_OneResultPerConfig == ReturnedResults => Len(results) = nConfigs

\* C2: at no instant do two tasks hold a lease on the same port (a task
\* holds its port from Acquire until its deferred Release).
C2_NoSharedPort ==
    \A i \in Tasks : \A j \in Tasks :
        (i # j /\ tport[i] # 0) => tport[i] # tport[j]

\* C3: a task that has left testConfigWithResources holds no port, and when
\* the batch has finished (TestConfigsSafe returned) the PortManager has no
\* outstanding lease.
C3_LeasesReleased ==
    /\ \A i \in Tasks : tpc[i] \in {"emit", "report", "finished"} => tport[i] = 0
    /\ Returned => leased = {}

\* C4: if every task terminates and the context is never cancelled, the
\* orchestrator's wait for the submitted tasks completes.
C4_WaitCompletes ==
    <>(ctxCancelled \/ opc \in {"collect", "stopping", "done"})

\* C5: a result produced because the Tester context was cancelled (ctx.Err()
\* is "context canceled", not the deadline) has Result = cancelled.
C5_CancelledResult ==
    \A i \in Tasks :
        tres[i].Message = "Test cancelled: context canceled"
            => tres[i].Result = "cancelled"

\* C6: when TestConfigsSafe stops submitting because the context is
\* cancelled, the results already emitted by completed tasks are in the
\* slice it returns.
C6_PartialResults ==
    [][(opc = "submit" /\ opc' = "stopping")
         => \A k \in 1..Len(resultChan) :
               \E m \in 1..Len(results') : results'[m] = resultChan[k]]_vars

\* C7: once the context is cancelled TestConfigsSafe eventually returns,
\* even if a test in flight never ends.
C7_ReturnsAfterCancel == ctxCancelled ~> (opc \in {"stopping", "done"})

\* C8: for every task that panicked, the returned results hold a failure
\* result for its config whose message starts with "panic: ".
C8_PanicRecorded ==
    ReturnedResults =>
        \A i \in tpanic :
            \E m \in 1..Len(results) :
                /\ results[m].Config = i
                /\ results[m].Result = ResultFailure
                /\ results[m].Message = "panic: <value>"

\* C9: every Submit returns ok, queue_full or shutting_down, and a Submit
\* made once Stop has closed the shutdown signal returns shutting_down.
C9_SubmitAfterStop ==
    [][nSubmits' # nSubmits
         => /\ submitRet' \in {"ok", "queue_full", "shutting_down"}
            /\ wpShutdown => submitRet' = "shutting_down"]_vars

\* C10: after the batch has ended (TestConfigsSafe returned) activeProcesses
\* is back at its value before the batch, which is 0.
C10_ActiveRestored == Returned => activeProcesses = 0

\* C11: at every quiescent point (updateMetrics runs under the metrics lock,
\* one call at a time, so every state is one) totalTests equals
\* successfulTests + failedTests.
C11_CountersAddUp == totalTests = successfulTests + failedTests

C11_Witness ==
    /\ successfulTests > 0 /\ failedTests > 0
    /\ totalTests = successfulTests + failedTests

\* the results produced so far in the batch: held by a task, in resultChan,
\* or already collected
ProducedResults ==
    {tres[i] : i \in Tasks} \cup {resultChan[k] : k \in 1..Len(resultChan)}
        \cup {results[k] : k \in 1..Len(results)}

\* canTest has admitted no task of the batch so far
NoneAdmitted == \A i \in Tasks : admit[i] # "yes"

\* C12: as long as admission has denied every task it was asked about, every
\* result of the batch is resource_exhausted, no task holds or has taken a
\* port (so no child was started for it), and activeProcesses is 0.
C12_AllDenied ==
    NoneAdmitted =>
        /\ \A r \in ProducedResults :
              r.Result \in {"none", ResultResourceExhausted}
        /\ leased = {}
        /\ \A i \in Tasks : tport[i] = 0 /\ tpc[i] \notin {"enter", "acquire", "check", "test", "leave"}
        /\ activeProcesses = 0

C12_Witness ==
    /\ ReturnedResults
    /\ nConfigs >= 2
    /\ Len(results) = nConfigs
    /\ \A i \in Tasks : admit[i] = "no"
    /\ \A k \in 1..Len(results) : results[k].Result = ResultResourceExhausted

\* C13 as stated: canTest admits exactly when the memory reading is strictly
\* below MaxMemoryMB and activeProcesses is strictly below MaxWorkers.
C13_StrictlyBelow ==
    ctRet # "none" =>
        (ctRet = "admit" <=>
            (ctMem < maxMemoryMB /\ activeProcesses < maxWorkers))

\* C13 amended: canTest admits exactly when the memory check is switched off
\* (MaxMemoryMB <= 0) or the reading is at most MaxMemoryMB, and
\* activeProcesses is strictly below MaxWorkers.
C13_AtMostLimit ==
    ctRet # "none" =>
        (ctRet = "admit" <=>
            /\ (maxMemoryMB <= 0 \/ ctMem <= maxMemoryMB)
            /\ activeProcesses < maxWorkers)

C13_Witness ==
    /\ ctRet = "admit"
    /\ maxMemoryMB > 0 /\ ctMem = maxMemoryMB
    /\ activeProcesses < maxWorkers

\* C14: with a port range of size 1 the tasks of a batch take turns on the
\* single port whatever MaxWorkers is: no returned result is port_conflict
\* (a result other than success then has a cause outside the claim's
\* premise: a failing probe, a deadline, a cancellation, a denied admission).
C14_SinglePortSerializes ==
    (numPorts = 1 /\ ReturnedResults) =>
        \A k \in 1..Len(results) : results[k].Result # ResultPortConflict

\* C15: a task whose derived Timeout deadline has expired while its probe
\* (testSingleConfig) is in progress ends, when the probe returns without a
\* panic, with Result = timeout and with its port lease released.
C15_DeadlineGivesTimeout ==
    [][\A i \in Tasks :
          (tpc[i] = "test" /\ i \in texpired /\ tpc'[i] = "leave"
             /\ i \notin tpanic')
          => /\ tres'[i].Result = ResultTimeout
             /\ tport'[i] = 0 /\ tport[i] \notin leased']_vars

\* C16: with Timeout = 0 no probe is ever started and none reports success:
\* every admitted task that ends and got its port ends with Result =
\* timeout (one that got no port ends with port_conflict before the probe
\* step).
C16_ZeroTimeout ==
    timeout = 0 =>
        /\ \A i \in Tasks : tpc[i] # "test"
        /\ tpanic = {}
        /\ \A r \in ProducedResults :
              r.Result \notin {ResultSuccess, ResultFailure}
        /\ \A i \in Tasks :
              (admit[i] = "yes" /\ tres[i].Result # "none")
                 => tres[i].Result \in {ResultTimeout, ResultPortConflict}

C16_Witness ==
    /\ timeout = 0
    /\ ReturnedResults
    /\ Len(results) = nConfigs /\ nConfigs >= 2
    /\ \A k \in 1..Len(results) : results[k].Result = ResultTimeout

\* the tasks a worker is executing right now
Executing == {i \in Tasks : tpc[i] \in Running}

\* C17: at every instant at most maxWorkers tasks are being executed, and an
\* accepted task is executed at most once: it is in taskQueue once, and only
\* while it has not started (a worker starts the task it takes out of the
\* queue). With MaxWorkers = 1 at most one task is executing at a time.
C17_BoundedOnce ==
    /\ Cardinality(Executing) <= maxWorkers
    /\ \A k \in 1..Len(taskQueue) :
          /\ tpc[taskQueue[k]] = "queued"
          /\ \A m \in 1..Len(taskQueue) :
                taskQueue[m] = taskQueue[k] => m = k
    /\ \A i \in Tasks :
          tpc[i] = "queued" => \E k \in 1..Len(taskQueue) : taskQueue[k] = i

C17_Witness ==
    /\ Cardinality(Executing) = maxWorkers
    /\ taskQueue # <<>>
    /\ \E i \in Tasks : tpc[i] = "finished"

\* C18: the supervisor goes Running -> Draining -> Stopped on one signal,
\* and a second signal received while it is draining (Stop waiting for the
\* tasks or the grace timer) moves it to Aborting.
C18_SecondSignalAborts ==
    [][/\ SupervisorState' # SupervisorState
          => <<SupervisorState, SupervisorState'>> \in
                {<<"Running", "Draining">>, <<"Draining", "Stopped">>,
                 <<"Draining", "Aborting">>, <<"Aborting", "Stopped">>}
       /\ (spc = "waiting" /\ ~sigPending /\ sigPending')
          => SupervisorState' = "Aborting"]_vars

\* C19: only successful results contribute samples to avgResponseTime: a
\* call of updateMetrics with a result whose Result is not success leaves
\* avgResponseTime unchanged.
C19_AvgOnlySuccess ==
    [][(totalTests' # totalTests /\ Head(resultChan).Result # ResultSuccess)
          => avgResponseTime' = avgResponseTime]_vars

\* C20: every result whose Result is not success has ResponseTime = 0.
C20_ZeroOnNonSuccess ==
    \A r \in ProducedResults :
        r.Result # ResultSuccess => r.ResponseTime = 0

\* C21: Release is idempotent: when ReleaseAll has already released a
\* task's lease, the task's own deferred Release of that lease leaves the
\* set of leased ports as it is, also when other tasks acquired ports in
\* between.
C21_ReleaseIdempotent ==
    [][\A i \in Tasks :
          (i \in revoked /\ tport[i] # 0 /\ tport'[i] = 0)
             => leased' = leased]_vars

\* C22: for an empty batch TestConfigsSafe returns an empty result set and
\* no error, and no worker pool is created, no worker started, no port
\* acquired and no metric changed.
C22_EmptyBatch ==
    nConfigs = 0 =>
        /\ opc \in {"idle", "done"}
        /\ results = <<>> /\ ~retErr
        /\ idleWorkers = 0 /\ exitedWorkers = 0
        /\ wppc = "none" /\ ~wpShutdown /\ taskQueue = <<>> /\ nSubmits = 0
        /\ leased = {} /\ activeProcesses = 0
        /\ totalTests = 0 /\ successfulTests = 0 /\ failedTests = 0
        /\ avgResponseTime = <<0, 1>>

C22_Witness == nConfigs = 0 /\ opc = "done" /\ spc = "stopped"

\* serveMetrics: the counters as one request reads them
MetricsSnapshot ==
    [total |-> totalTests, success |-> successfulTests, failure |-> failedTests]

\* C23: the counters total, success and failure never decrease: each one in
\* a later snapshot is at least its value in an earlier one.
C23_CountersMonotonic ==
    [][/\ MetricsSnapshot'.total >= MetricsSnapshot.total
       /\ MetricsSnapshot'.success >= MetricsSnapshot.success
       /\ MetricsSnapshot'.failure >= MetricsSnapshot.failure]_vars

C23_Witness ==
    /\ MetricsSnapshot.total >= 2
    /\ MetricsSnapshot.success >= 1 /\ MetricsSnapshot.failure >= 1

\* C27: WorkerPool.Stop returns only after every worker started by Start has
\* exited, and the pool's WaitGroup counter never becomes negative.
C27_StopWaitsForWorkers ==
    /\ wpWg >= 0
    /\ wppc = "stopped" => exitedWorkers = StartedWorkers

\* C28: every invocation of Tester.Stop, the first and a repeated one,
\* completes without a fault.
C28_StopTwiceHarmless ==
    [][stopCalls' > stopCalls => ~crashed']_vars

\* C29: a task that a worker starts after the Tester context was cancelled
\* finishes without incrementing activeProcesses (position "acquire" is
\* past the increment), without a port lease and without running the test.
C29_LateTaskSkips ==
    \A i \in lateStart :
        /\ tpc[i] \notin {"acquire", "check", "test", "leave"}
        /\ tport[i] = 0

\* C30: once WorkerPool.Stop has closed the shutdown signal no worker starts
\* executing a task from the queue.
C30_NoStartAfterShutdown ==
    [][wpShutdown =>
          \A i \in Tasks : ~(tpc[i] = "queued" /\ tpc'[i] = "run")]_vars

\* C24: saveConfig(path) that succeeded, followed by loadConfig(path) of
\* the same file path, restores every persisted Config field to its value
\* at save time, whatever happened to m_config in between (resetToDefaults
\* included).
C24_RoundTrip ==
    (cmOp.op = "loadConfig" /\ cmOp.path \in FilePaths
        /\ cmSaved[cmOp.path].saved)
    => m_config = cmSaved[cmOp.path].config

C24_Witness ==
    /\ cmOp.op = "loadConfig" /\ cmOp.path \in FilePaths
    /\ cmSaved[cmOp.path].saved
    /\ m_config = cmSaved[cmOp.path].config
    /\ m_config \in TestConfigs
    /\ m_config.requestTimeout = 7

\* C25: whenever loadConfig has returned false, getConfigErrors() is
\* non-empty.
C25_ErrorsAfterFailedLoad ==
    (cmOp.op = "loadConfig" /\ ~cmOp.ret) => m_errors # <<>>

\* C26: after a Utils file operation that tracks errors, hasError() is
\* true exactly when that operation failed (so a success clears an earlier
\* error), and after clearError() hasError() is false.
C26_ErrorTracksLastOp ==
    /\ utOp.op \in TrackedOps => (hasError <=> utOp.failed)
    /\ utOp.op = "clearError" => ~hasError

C26_Witness ==
    /\ utOp.op \in TrackedOps
    /\ utOp.hadError /\ ~utOp.failed /\ ~hasError

\* C31: every invocation of Tester.Stop terminates: once it has cancelled
\* the context and waits for the tasks or for GracefulTimeout, it goes on to
\* ReleaseAll and returns.
C31_StopTerminates == (spc = "waiting") ~> (spc = "stopped")

\* the tasks that have completed and sent their result to resultChan
Emitted == {i \in Tasks : tpc[i] \in {"report", "finished"} /\ i \notin tpanic}

\* C32: when the batch has ended (TestConfigsSafe returned, also because the
\* context was cancelled), every task that completed and produced a result
\* has been counted once in totalTests and once in successfulTests or
\* failedTests, according to its result.
C32_EveryResultCounted ==
    Returned =>
        /\ totalTests = Cardinality(Emitted)
        /\ successfulTests =
              Cardinality({i \in Emitted : tres[i].Result = ResultSuccess})
        /\ failedTests =
              Cardinality({i \in Emitted : tres[i].Result # ResultSuccess})

\* C33: after a task has panicked, every task still waiting in the queue is
\* eventually taken by a worker and executed (unless the batch is
\* cancelled).
C33_QueuedBehindPanicRuns ==
    \A i \in 1..MaxConfigs :
        (tpanic # {} /\ IF i \in Tasks THEN tpc[i] = "queued" ELSE FALSE)
            ~> (ctxCancelled \/ IF i \in Tasks THEN tpc[i] # "queued" ELSE TRUE)

\* the worker goroutines of the batch's pool: waiting for a task, running
\* one or reporting its error, or returned
PoolWorkers ==
    idleWorkers + exitedWorkers
        + Cardinality({i \in Tasks : tpc[i] \in Running \cup {"report"}})

\* C34: once TestConfigsSafe has started the pool for a batch of n configs,
\* the pool has exactly min(MaxWorkers, n) workers.
C34_PoolSizedToBatch ==
    (opc # "idle" /\ nConfigs > 0)
        => PoolWorkers = IF maxWorkers < nConfigs THEN maxWorkers ELSE nConfigs

\* the tasks between the increment and the deferred decrement of
\* activeProcesses in testConfigWithResources
InsideTest == {i \in Tasks : tpc[i] \in {"acquire", "check", "test", "leave"}}

\* C35: in every reachable state 0 <= activeProcesses <= MaxWorkers, and the
\* counter is the number of tasks inside testConfigWithResources (one
\* increment on entry, one decrement on leaving).
C35_ActiveBounded ==
    /\ 0 <= activeProcesses
    /\ activeProcesses <= maxWorkers
    /\ activeProcesses = Cardinality(InsideTest)

C35_Witness ==
    /\ maxWorkers >= 2
    /\ activeProcesses = maxWorkers
    /\ \E i \in Tasks : tpc[i] = "finished" /\ admit[i] = "yes"

\* TestConfigsSafe has executed close(resultChan), after ept.wg.Wait()
ResultChanClosed == opc = "collect" \/ (opc \in {"stopping", "done"} /\ ~retErr)

\* C36: whenever a task is about to send its result, resultChan is open and
\* has room, so the send completes at once, also during shutdown and after
\* TestConfigsSafe has stopped reading.
C36_EmitNeverBlocks ==
    \A i \in Tasks :
        (tpc[i] = "emit" /\ i \notin tpanic)
            => Len(resultChan) < ResultChanCap /\ ~ResultChanClosed

C36_Witness ==
    /\ opc = "done" /\ retErr /\ ctxCancelled
    /\ Len(resultChan) >= 1
    /\ \E i \in Tasks : tpc[i] = "emit" /\ i \notin tpanic

ProtocolTypes == {"vmess", "shadowsocks", "trojan", "vless", "socks", "http"}

\* C37: whenever a bean's TryParseLink has returned true the bean has a
\* non-empty serverAddress, and every bean that ParseSingleLink returns has a
\* non-empty serverAddress and a type among vmess, shadowsocks, trojan,
\* vless, socks, http.
C37_ParsedBeanHasServer ==
    /\ (spOp.op \in BeanClasses /\ spOp.ret) => spBean.serverAddress # ""
    /\ (spOp.op = "ParseSingleLink" /\ spOp.ret)
          => spBean.serverAddress # "" /\ spBean.type \in ProtocolTypes

====
